---- MODULE Spec2Model ----
(***************************************************************************)
(* A model of the jsonrpc-rs dispatch core.                                *)
(*                                                                         *)
(*   SpecPool    the callback pool of src/src/callback.rs: the id          *)
(*               allocator, the fired map and the wakers map.              *)
(*   SpecClient  one client session: calls issued by the client and its    *)
(*               clones, the internal send queue, send_loop and recv_loop  *)
(*               (src/src/client/send.rs, src/src/client/recv.rs) and the  *)
(*               completion queue both loops share.                        *)
(*   SpecSend    the send half of that session: calls and notifications,   *)
(*               the send queue, send_loop and a sink that may refuse.     *)
(*   SpecTimer   that session with calls that carry a timer                *)
(*               (Client::call_with_timer, src/src/client.rs).             *)
(*   SpecServer  one server session: ServiceSession::run and handle_resp   *)
(*               (src/src/server/session.rs) over the handlers built by    *)
(*               to_handler / to_async_handler (src/src/server/handler.rs).*)
(*   SpecWheel   the hashed timer wheel of src/src/timer/timerwheel.rs:    *)
(*               TimeWheel::add and TimeWheel::tick.                       *)
(*   SpecWire    the wire objects of src/src/object.rs (Version and        *)
(*               ErrorCode decoding) and the params normalization of the   *)
(*               handlers, applied to inputs drawn from bounded sets.      *)
(*   SpecExecutor    the timer registry of src/src/timer/mod.rs:           *)
(*               create_timer, Timeout::poll and the tick of the thread.   *)
(*   SpecRegistries  the two waker registries, the callback pool and the   *)
(*               timer executor, each run on its own.                      *)
(*   FairSpecPool    SpecPool with every awaited Joinable polled again     *)
(*               after its waker was invoked.                              *)
(*                                                                         *)
(* Every specification starts from the same Init and leaves the variables  *)
(* of the other components unchanged.                                      *)
(***************************************************************************)
EXTENDS Integers, Sequences, FiniteSets, TLC

\* ------------------------------------------------------------------ bounds

\* Joinables handed out by the pool.
MaxJoin == 2
\* Calls issued on the client and its clones.
MaxCalls == 2
\* Items the transport input yields to recv_loop.
MaxFrames == 2
\* Capacity of the internal send queue in the model.
MaxQueue == 2
\* Sink failures the transport output produces.
MaxSinkFail == 1
\* Notifications issued on the client.
MaxNotify == 1
\* Inbound frames a server session reads.
MaxRequests == 2
\* Slots of the timer wheel (TimeWheel::new(steps)).
WheelSteps == 2
\* Timers added to the wheel.
MaxTimers == 2
\* The largest timeout a timer is added with.
MaxTimeout == 3
\* Tick calls on the wheel.
MaxTicks == 6
\* Length of the JSON arrays offered as params.
MaxArrayLen == 2

None == "none"

\* Outputs handed to CallbackPool::complete.
PoolValues == {"a", "b"}
\* Ids join can hand out; complete may be invoked with any of them at any time,
\* before join has handed it out included.
PoolIds == 1..MaxJoin

\* ------------------------------------------------------------------ state

VARIABLES
    \* callback.rs
    seq,        \* CallbackPool.seq: the next id join hands out
    wakers,     \* CallbackPoolImpl.wakers: ids that hold a registered waker
    fired,      \* CallbackPoolImpl.fired: id -> output, None when absent
    handle,     \* per id, the Joinable: "none", "live", "done" (poll returned its
                \* output), "dropped" (dropped with nothing fired for it),
                \* "dropped_fired" (dropped with its output still in fired)
    got,        \* per id, the output Joinable::poll returned, None before
    woken,      \* per id, whether the waker was invoked since the last poll
    firstVal,   \* history: per id, the output of the first complete while live
    issued,     \* history: the ids join returned, in order
    polled,     \* history: per id, whether Joinable::poll was called
    lockAtWake  \* history: the state of the inner mutex when complete last
                \* invoked a waker, "none" while it invoked none

poolVars == <<seq, wakers, fired, handle, got, woken, firstVal, issued, polled,
              lockAtWake>>

VARIABLES
    \* the client session
    qSeq,       \* the completion queue's next event id
    pending,    \* the completion queue: id -> slot [st, res]
    callPc,     \* per call id: "none", "registered" (wait_one done, request
                \* built), "awaiting" (request accepted by the send queue),
                \* "returned", "dropped" (the caller dropped the call future)
    callRes,    \* per call id, what the call returned
    queue,      \* the internal send queue (mpsc channel), oldest first
    wire,       \* the requests the transport sink accepted, in order
    sinkFails,  \* sink failures so far
    recvPc,     \* recv_loop: "running", "stopped_eof", "stopped_err",
                \* "stopped_decode"
    recvCount,  \* frames recv_loop has pulled from the input
    lastItem,   \* history: the last frame recv_loop pulled, as [type, id]
    stopSeq,    \* history: qSeq when recv_loop stopped, 0 while it runs
    inflightAtStop  \* history: the ids waiting when recv_loop stopped

clientVars == <<qSeq, pending, callPc, callRes, queue, wire, sinkFails, recvPc,
                recvCount, lastItem, stopSeq, inflightAtStop>>

VARIABLES
    \* the client session, continued
    timers,     \* ids of the calls whose receiver holds an armed timer
    notified    \* notifications the send queue accepted

clientExt == <<timers, notified>>

VARIABLES
    \* one server session (src/src/server/session.rs)
    sPc,        \* run: "running", "stopped_eof", "stopped_err" (input error),
                \* "stopped_decode", "stopped_sink"
    sOut,       \* the frames the session wrote to its output, in order
    sCount,     \* inbound items the session has read
    sLast,      \* history: the last inbound item and what its handler returned
    sOrigin     \* history: for every frame of sOut, the position in the input
                \* of the request it answers

VARIABLES
    \* the handler registry (src/src/server/handler.rs)
    hFactory,   \* per method, the state the closure held by the method's
                \* handler factory has captured
    hRuns,      \* history: per method, the invocations of the user function
    hLast       \* history: the captured state the last invoked handler started
                \* with, and the one it ended with

serverVars == <<sPc, sOut, sCount, sLast, sOrigin, hFactory, hRuns, hLast>>

VARIABLES
    \* the timer wheel (src/src/timer/timerwheel.rs)
    tick,       \* TimeWheel.tick: the tick calls so far
    hashed,     \* TimeWheel.hashed: slot -> the Slots {round, t} pushed to it
    added,      \* history: per timer, <<tick at add, timeout>>, <<>> before add
    firedAt     \* history: per timer, the number of the tick call that
                \* returned it, 0 while none did

VARIABLES
    \* the timer executor around the wheel (src/src/timer/mod.rs)
    timerIdSeq, \* TimerExecutorImpl.timer_id_seq
    tWakers,    \* TimerExecutorImpl.wakers: timers that hold a registered waker
    tFired      \* TimerExecutorImpl.fired

wheelVars == <<tick, hashed, added, firedAt, timerIdSeq, tWakers, tFired>>

VARIABLES
    \* the wire model (src/src/object.rs) and the params normalization
    \* (src/src/server/handler.rs): a function applied to an input
    wOp,        \* the function applied, "none" before
    wIn,        \* its input
    wOut        \* what it returned, None before

wireVars == <<wOp, wIn, wOut>>

vars == <<poolVars, clientVars, clientExt, serverVars, wheelVars, wireVars>>

\* What an action of one component leaves alone.
nonPoolVars == <<clientVars, clientExt, serverVars, wheelVars, wireVars>>
nonClientVars == <<poolVars, serverVars, wheelVars, wireVars>>
nonServerVars == <<poolVars, clientVars, clientExt, wheelVars, wireVars>>
nonWheelVars == <<poolVars, clientVars, clientExt, serverVars, wireVars>>
nonWireVars == <<poolVars, clientVars, clientExt, serverVars, wheelVars>>

\* ------------------------------------------------------- callback.rs (pool)

\* AtomicUsize::fetch_add(1): the value stored after the call.
FetchAddSame(s) == s

FetchAdd(s) == s + 1

\* CallbackPoolImpl::poll: the fired output is removed and returned, or the
\* waker is registered and the poll is pending.
PoolPoll(w, f, id) ==
    IF f[id] # None
    THEN [wakers |-> w, fired |-> [f EXCEPT ![id] = None], ret |-> f[id]]
    ELSE [wakers |-> w \cup {id}, fired |-> f, ret |-> None]

\* complete that invokes the waker by reference and keeps it registered.
PoolCompleteKeepsWaker(w, f, id, output) ==
    [wakers |-> w,
     fired  |-> [f EXCEPT ![id] = output],
     woke   |-> id \in w]

\* complete that stores the output and leaves the waker where it is.
PoolCompleteNoWake(w, f, id, output) ==
    [wakers |-> w,
     fired  |-> [f EXCEPT ![id] = output],
     woke   |-> FALSE]

\* CallbackPoolImpl::complete: the output is inserted into fired (replacing
\* whatever is stored under id), the waker is removed and invoked.
PoolComplete(w, f, id, output) ==
    [wakers |-> w \ {id},
     fired  |-> [f EXCEPT ![id] = output],
     woke   |-> id \in w]

\* CallbackPool::join. Every clone of the pool holds the same seq and inner
\* (both are Arc), so a join on any clone is this one action.
Join ==
    /\ Len(issued) < MaxJoin
    /\ seq \in PoolIds
    /\ seq' = FetchAdd(seq)
    /\ handle' = [handle EXCEPT ![seq] = "live"]
    /\ issued' = Append(issued, seq)
    /\ UNCHANGED <<wakers, fired, got, woken, firstVal, polled, lockAtWake>>
    /\ UNCHANGED nonPoolVars

\* Joinable::poll on a live handle.
Poll(id) ==
    /\ handle[id] = "live"
    /\ LET r == PoolPoll(wakers, fired, id) IN
        /\ wakers' = r.wakers
        /\ fired' = r.fired
        /\ got' = [got EXCEPT ![id] = r.ret]
        /\ handle' = [handle EXCEPT ![id] = IF r.ret # None THEN "done" ELSE "live"]
    /\ woken' = [woken EXCEPT ![id] = FALSE]
    /\ polled' = [polled EXCEPT ![id] = TRUE]
    /\ UNCHANGED <<seq, firstVal, issued, lockAtWake>>
    /\ UNCHANGED nonPoolVars

\* CallbackPool::complete, invoked by any producer with any id:
\* self.inner.lock().unwrap().complete(id, output). The guard of the mutex is
\* a temporary of that statement, so CallbackPoolImpl::complete, its
\* waker.wake_by_ref() included, runs with the mutex held.
Complete(id, output) ==
    /\ LET r == PoolComplete(wakers, fired, id, output) IN
        /\ wakers' = r.wakers
        /\ fired' = r.fired
        /\ woken' = [woken EXCEPT ![id] = @ \/ r.woke]
        /\ lockAtWake' = IF r.woke THEN "held" ELSE lockAtWake
    /\ firstVal' = [firstVal EXCEPT ![id] =
                        IF handle[id] = "live" /\ @ = None THEN output ELSE @]
    /\ UNCHANGED <<seq, handle, got, issued, polled>>
    /\ UNCHANGED nonPoolVars

\* The caller drops the Joinable: the type has no Drop, nothing is released.
DropJoinable(id) ==
    /\ handle[id] = "live"
    /\ handle' = [handle EXCEPT ![id] =
                        IF fired[id] = None THEN "dropped" ELSE "dropped_fired"]
    /\ UNCHANGED <<seq, wakers, fired, got, woken, firstVal, issued, polled,
                   lockAtWake>>
    /\ UNCHANGED nonPoolVars

\* The poll the executor owes a Joinable: the first one, and one after every
\* invocation of its waker.
OwedPoll(id) ==
    /\ ~polled[id] \/ woken[id]
    /\ Poll(id)

\* ------------------------------------------------------------ wire objects

\* Ids of the calls the client issues.
CallIds == 1..MaxCalls
\* Ids an inbound response may carry: every call id, and one never assigned.
FrameIds == 1..(MaxCalls + 1)

\* A call's outcome. val is the payload of an Ok or the cause of an Err; src is
\* the id of the response frame the outcome was decoded from, 0 for an outcome
\* made by the client itself: the peer's payloads are told apart by the
\* request they answer.
NoRes == [kind |-> "none", code |-> "", val |-> "", src |-> 0]
OkRes(v, i) == [kind |-> "ok", code |-> "", val |-> v, src |-> i]
ErrRes(code, cause, i) == [kind |-> "err", code |-> code, val |-> cause, src |-> i]

\* What the peer puts on the transport: a frame that decodes as a Response
\* (with or without its result and error members), or one that does not.
RespFrames ==
    [type : {"resp"}, id : FrameIds, hasResult : BOOLEAN, hasError : BOOLEAN]

\* What the history keeps of a pulled frame: whether it decoded, and its id.
ItemTag(f) == [type |-> f.type, id |-> f.id]

Garbage == [type |-> "garbage", id |-> 0]

NoItem == [type |-> "none", id |-> 0]

\* Request.id, an Option<usize>.
SomeId(i) == [some |-> TRUE, v |-> i]
NoId == [some |-> FALSE, v |-> 0]

\* serde_json::to_string of a Request: the id member is written when the id is
\* Some and skipped when it is None (skip_serializing_if). A frame keeps
\* whether it has the member, and the member's value (0 without the member).
EncodeRequest(id) ==
    IF id.some THEN [hasId |-> TRUE, id |-> id.v] ELSE [hasId |-> FALSE, id |-> 0]

\* The choice that takes a response without result and without error for a
\* failure.
ResponseOutcomeNoNull(f) ==
    IF f.hasResult THEN OkRes("v", f.id)
    ELSE ErrRes("ServerError", "peer", f.id)

\* recv_loop's choice of the completion argument: the result when present,
\* else the error when present, else Ok(null).
ResponseOutcome(f) ==
    IF f.hasResult THEN OkRes("v", f.id)
    ELSE IF f.hasError THEN ErrRes("ServerError", "peer", f.id)
    ELSE OkRes("null", f.id)

\* ------------------------------------------------------- completion queue

NoSlot == [st |-> "None", res |-> NoRes]
WaitingSlot == [st |-> "Waiting", res |-> NoRes]
CancelledSlot == [st |-> "Cancelled", res |-> NoRes]
TimedOutSlot == [st |-> "TimedOut", res |-> NoRes]

\* wait_one: installs a waiting slot under the allocated id.
WaitOne(p, id) == [p EXCEPT ![id] = WaitingSlot]

\* complete_one: a waiting slot becomes ready with the argument; any other id
\* (no slot, or a slot already completed or cancelled) is dropped silently.
CompleteOne(p, id, r) ==
    IF p[id].st = "Waiting" THEN [p EXCEPT ![id] = [st |-> "Ready", res |-> r]] ELSE p

\* cancel_all that cancels every slot of the table, the completed ones too.
CancelAllEverySlot(p) ==
    [i \in DOMAIN p |-> IF p[i].st # "None" THEN CancelledSlot ELSE p[i]]

\* cancel_all: every waiting slot becomes cancelled.
CancelAll(p) ==
    [i \in DOMAIN p |-> IF p[i].st = "Waiting" THEN CancelledSlot ELSE p[i]]

\* The timer bound to a slot expires: a waiting slot becomes timed out; a slot
\* that was completed or cancelled before stays as it is.
FailTimeout(p, id) ==
    IF p[id].st = "Waiting" THEN [p EXCEPT ![id] = TimedOutSlot] ELSE p

\* The consumer takes its slot, or drops its receiver: the slot is removed.
RemoveSlot(p, id) == [p EXCEPT ![id] = NoSlot]

\* send_request on the receiver's outcome: the completion argument, or an
\* InternalError that carries the receiver's error (cancelled, or timed out).
AwaitOutcome(slot) ==
    IF slot.st = "Ready" THEN slot.res
    ELSE IF slot.st = "TimedOut" THEN ErrRes("InternalError", "timeout", 0)
    ELSE ErrRes("InternalError", "canceled", 0)

Waiting(p) == {i \in DOMAIN p : p[i].st = "Waiting"}

\* ------------------------------------------------------------ client calls

\* call that builds the request around the next id and registers no slot
\* for it.
CallRegisterNoSlot ==
    /\ qSeq \in CallIds
    /\ qSeq' = qSeq + 1
    /\ callPc' = [callPc EXCEPT ![qSeq] = "registered"]
    /\ UNCHANGED <<pending, callRes, queue, wire, sinkFails, recvPc, recvCount,
                   lastItem, stopSeq, inflightAtStop>>
    /\ UNCHANGED <<clientExt, nonClientVars>>

\* Client::call up to the returned future: wait_one allocates the id and
\* registers the slot, the request is built around that id.
CallRegister ==
    /\ qSeq \in CallIds
    /\ pending' = WaitOne(pending, qSeq)
    /\ qSeq' = qSeq + 1
    /\ callPc' = [callPc EXCEPT ![qSeq] = "registered"]
    /\ UNCHANGED <<callRes, queue, wire, sinkFails, recvPc, recvCount, lastItem,
                   stopSeq, inflightAtStop>>
    /\ UNCHANGED <<clientExt, nonClientVars>>

\* Client::call_with_timer up to the returned future: as call, with the
\* caller's timer bound to the receiver.
CallWithTimer ==
    /\ qSeq \in CallIds
    /\ pending' = WaitOne(pending, qSeq)
    /\ timers' = timers \cup {qSeq}
    /\ qSeq' = qSeq + 1
    /\ callPc' = [callPc EXCEPT ![qSeq] = "registered"]
    /\ UNCHANGED <<callRes, queue, wire, sinkFails, recvPc, recvCount, lastItem,
                   stopSeq, inflightAtStop>>
    /\ UNCHANGED notified
    /\ UNCHANGED nonClientVars

\* The timer of a call expires while the call's future is alive, failing every
\* waiting slot of the table.
TimerExpireAll(id) ==
    /\ id \in timers
    /\ callPc[id] \in {"registered", "awaiting"}
    /\ timers' = timers \ {id}
    /\ pending' = [i \in DOMAIN pending |-> FailTimeout(pending, i)[i]]
    /\ UNCHANGED <<qSeq, callPc, callRes, queue, wire, sinkFails, recvPc,
                   recvCount, lastItem, stopSeq, inflightAtStop>>
    /\ UNCHANGED notified
    /\ UNCHANGED nonClientVars

\* The timer of a call expires while the call's future is alive.
TimerExpire(id) ==
    /\ id \in timers
    /\ callPc[id] \in {"registered", "awaiting"}
    /\ timers' = timers \ {id}
    /\ pending' = FailTimeout(pending, id)
    /\ UNCHANGED <<qSeq, callPc, callRes, queue, wire, sinkFails, recvPc,
                   recvCount, lastItem, stopSeq, inflightAtStop>>
    /\ UNCHANGED notified
    /\ UNCHANGED nonClientVars

\* Client::notification that allocates an id and registers a slot, as a call
\* does.
NotificationRegisters ==
    /\ notified < MaxNotify
    /\ qSeq \in CallIds
    /\ Len(queue) < MaxQueue
    /\ pending' = WaitOne(pending, qSeq)
    /\ qSeq' = qSeq + 1
    /\ queue' = Append(queue, EncodeRequest(SomeId(qSeq)))
    /\ notified' = notified + 1
    /\ UNCHANGED <<callPc, callRes, wire, sinkFails, recvPc, recvCount,
                   lastItem, stopSeq, inflightAtStop>>
    /\ UNCHANGED timers
    /\ UNCHANGED nonClientVars

\* Client::notification: the request is built without id and encoded, and the
\* call returns once the send queue accepted it.
Notification ==
    /\ notified < MaxNotify
    /\ Len(queue) < MaxQueue
    /\ queue' = Append(queue, EncodeRequest(NoId))
    /\ notified' = notified + 1
    /\ UNCHANGED <<qSeq, pending, callPc, callRes, wire, sinkFails, recvPc,
                   recvCount, lastItem, stopSeq, inflightAtStop>>
    /\ UNCHANGED timers
    /\ UNCHANGED nonClientVars

\* send_request, first await: the encoded request is accepted by the send
\* queue; the caller is suspended while the queue is full.
CallEnqueue(id) ==
    /\ callPc[id] = "registered"
    /\ Len(queue) < MaxQueue
    /\ queue' = Append(queue, EncodeRequest(SomeId(id)))
    /\ callPc' = [callPc EXCEPT ![id] = "awaiting"]
    /\ UNCHANGED <<qSeq, pending, callRes, wire, sinkFails, recvPc, recvCount,
                   lastItem, stopSeq, inflightAtStop>>
    /\ UNCHANGED <<clientExt, nonClientVars>>

\* send_request, second await: the receiver resolves once its slot is no
\* longer waiting; the slot is taken and the call returns.
CallAwait(id) ==
    /\ callPc[id] = "awaiting"
    /\ pending[id].st \in {"Ready", "Cancelled", "TimedOut"}
    /\ callRes' = [callRes EXCEPT ![id] = AwaitOutcome(pending[id])]
    /\ pending' = RemoveSlot(pending, id)
    /\ callPc' = [callPc EXCEPT ![id] = "returned"]
    /\ UNCHANGED <<qSeq, queue, wire, sinkFails, recvPc, recvCount, lastItem,
                   stopSeq, inflightAtStop>>
    /\ UNCHANGED <<clientExt, nonClientVars>>

\* The caller drops the future of a call before it returned.
CallDrop(id) ==
    /\ callPc[id] \in {"registered", "awaiting"}
    /\ pending' = RemoveSlot(pending, id)
    /\ callPc' = [callPc EXCEPT ![id] = "dropped"]
    /\ UNCHANGED <<qSeq, callRes, queue, wire, sinkFails, recvPc, recvCount,
                   lastItem, stopSeq, inflightAtStop>>
    /\ UNCHANGED <<clientExt, nonClientVars>>

\* --------------------------------------------------------------- send_loop

\* send_loop writing the frame the queue accepted last.
SendOkNewest ==
    /\ queue # <<>>
    /\ wire' = Append(wire, queue[Len(queue)])
    /\ queue' = SubSeq(queue, 1, Len(queue) - 1)
    /\ UNCHANGED <<qSeq, pending, callPc, callRes, sinkFails, recvPc, recvCount,
                   lastItem, stopSeq, inflightAtStop>>
    /\ UNCHANGED <<clientExt, nonClientVars>>

\* send_loop: the head of the queue is written to the sink.
SendOk ==
    /\ queue # <<>>
    /\ wire' = Append(wire, Head(queue))
    /\ queue' = Tail(queue)
    /\ UNCHANGED <<qSeq, pending, callPc, callRes, sinkFails, recvPc, recvCount,
                   lastItem, stopSeq, inflightAtStop>>
    /\ UNCHANGED <<clientExt, nonClientVars>>

\* send_loop on a refused frame, failing every waiting call.
SendFailEveryCall ==
    /\ queue # <<>>
    /\ sinkFails < MaxSinkFail
    /\ sinkFails' = sinkFails + 1
    /\ queue' = Tail(queue)
    /\ pending' = [i \in DOMAIN pending |->
                        CompleteOne(pending, i, ErrRes("InternalError", "send", 0))[i]]
    /\ UNCHANGED <<qSeq, callPc, callRes, wire, recvPc, recvCount, lastItem,
                   stopSeq, inflightAtStop>>
    /\ UNCHANGED <<clientExt, nonClientVars>>

\* send_loop: the sink refuses the head of the queue; the frame is parsed
\* again and the call of its id, when it has one, is completed with the error.
\* The loop goes on with the next queued frame.
SendFail ==
    /\ queue # <<>>
    /\ sinkFails < MaxSinkFail
    /\ sinkFails' = sinkFails + 1
    /\ queue' = Tail(queue)
    /\ pending' = IF Head(queue).hasId
                  THEN CompleteOne(pending, Head(queue).id,
                                   ErrRes("InternalError", "send", 0))
                  ELSE pending
    /\ UNCHANGED <<qSeq, callPc, callRes, wire, recvPc, recvCount, lastItem,
                   stopSeq, inflightAtStop>>
    /\ UNCHANGED <<clientExt, nonClientVars>>

\* --------------------------------------------------------------- recv_loop

RecvStop(reason) ==
    /\ recvPc' = reason
    /\ stopSeq' = qSeq
    /\ inflightAtStop' = Waiting(pending)

\* recv_loop on a frame that decodes as a Response, completing whichever call
\* waits longest instead of the call of the frame's id.
RecvResponseOldest(f) ==
    /\ recvPc = "running"
    /\ recvCount < MaxFrames
    /\ recvCount' = recvCount + 1
    /\ lastItem' = ItemTag(f)
    /\ pending' = IF Waiting(pending) = {} THEN pending
                  ELSE CompleteOne(pending,
                                   CHOOSE i \in Waiting(pending) :
                                       \A j \in Waiting(pending) : i <= j,
                                   ResponseOutcome(f))
    /\ UNCHANGED <<qSeq, callPc, callRes, queue, wire, sinkFails, recvPc,
                   stopSeq, inflightAtStop>>
    /\ UNCHANGED <<clientExt, nonClientVars>>

\* recv_loop on a frame that decodes as a Response, taking a response nobody
\* waits for as a broken stream.
RecvResponseStrict(f) ==
    /\ recvPc = "running"
    /\ recvCount < MaxFrames
    /\ recvCount' = recvCount + 1
    /\ lastItem' = ItemTag(f)
    /\ IF pending[f.id].st = "Waiting"
       THEN /\ pending' = CompleteOne(pending, f.id, ResponseOutcome(f))
            /\ UNCHANGED <<recvPc, stopSeq, inflightAtStop>>
       ELSE /\ pending' = CancelAll(pending)
            /\ RecvStop("stopped_decode")
    /\ UNCHANGED <<qSeq, callPc, callRes, queue, wire, sinkFails>>
    /\ UNCHANGED <<clientExt, nonClientVars>>

\* recv_loop on a frame that decodes as a Response: complete_one on the
\* frame's id, then the next iteration.
RecvResponse(f) ==
    /\ recvPc = "running"
    /\ recvCount < MaxFrames
    /\ recvCount' = recvCount + 1
    /\ lastItem' = ItemTag(f)
    /\ pending' = CompleteOne(pending, f.id, ResponseOutcome(f))
    /\ UNCHANGED <<qSeq, callPc, callRes, queue, wire, sinkFails, recvPc,
                   stopSeq, inflightAtStop>>
    /\ UNCHANGED <<clientExt, nonClientVars>>

\* recv_loop on a frame that does not decode, logging it and going on.
RecvDecodeErrorContinue ==
    /\ recvPc = "running"
    /\ recvCount < MaxFrames
    /\ recvCount' = recvCount + 1
    /\ lastItem' = Garbage
    /\ UNCHANGED <<qSeq, pending, callPc, callRes, queue, wire, sinkFails,
                   recvPc, stopSeq, inflightAtStop>>
    /\ UNCHANGED <<clientExt, nonClientVars>>

\* recv_loop on a frame that does not decode as a Response: cancel_all, then
\* return Err.
RecvDecodeError ==
    /\ recvPc = "running"
    /\ recvCount < MaxFrames
    /\ recvCount' = recvCount + 1
    /\ lastItem' = Garbage
    /\ pending' = CancelAll(pending)
    /\ RecvStop("stopped_decode")
    /\ UNCHANGED <<qSeq, callPc, callRes, queue, wire, sinkFails>>
    /\ UNCHANGED <<clientExt, nonClientVars>>

\* recv_loop when the input yields an error, leaving the loop without
\* cancelling.
RecvInputErrorNoCancel ==
    /\ recvPc = "running"
    /\ RecvStop("stopped_err")
    /\ UNCHANGED <<qSeq, pending, callPc, callRes, queue, wire, sinkFails,
                   recvCount, lastItem>>
    /\ UNCHANGED <<clientExt, nonClientVars>>

\* recv_loop when the input yields an error: cancel_all, break, and the
\* cancel_all after the loop.
RecvInputError ==
    /\ recvPc = "running"
    /\ pending' = CancelAll(CancelAll(pending))
    /\ RecvStop("stopped_err")
    /\ UNCHANGED <<qSeq, callPc, callRes, queue, wire, sinkFails, recvCount,
                   lastItem>>
    /\ UNCHANGED <<clientExt, nonClientVars>>

\* recv_loop when the input ends: break, and the cancel_all after the loop.
RecvInputEnd ==
    /\ recvPc = "running"
    /\ pending' = CancelAll(pending)
    /\ RecvStop("stopped_eof")
    /\ UNCHANGED <<qSeq, callPc, callRes, queue, wire, sinkFails, recvCount,
                   lastItem>>
    /\ UNCHANGED <<clientExt, nonClientVars>>

\* ---------------------------------------------------------- server session

\* Methods with a registered handler cloner: one sync, one async.
SyncMethods == {"event"}
AsyncMethods == {"echo"}
\* Methods an inbound request may name: the registered ones and one that is not.
Methods == SyncMethods \cup AsyncMethods \cup {"nope"}

\* Ids an inbound request may carry.
ReqIds == 1..MaxRequests

\* What the registered closure f returns for decoded params: Ok(Some(val)),
\* Ok(None) or Err(e) with e = {code, message}.
HandlerValues == {"x", "y"}
FSome(v) == [kind |-> "some", val |-> v, code |-> "", message |-> ""]
FNone == [kind |-> "none", val |-> "", code |-> "", message |-> ""]
FErr(c, m) == [kind |-> "err", val |-> "", code |-> c, message |-> m]
FReturns == {FSome(v) : v \in HandlerValues} \cup {FNone, FErr("ServerError", "boom")}

\* Inbound frames that decode as a Request. params is "ok" when it decodes into
\* the handler's parameter type and "bad" when it does not.
InRequests ==
    {[id |-> i, method |-> m, params |-> p] :
        i \in {NoId} \cup {SomeId(k) : k \in ReqIds},
        m \in Methods,
        p \in {"ok", "bad"}}

\* A frame on the session's output.
NoFrame == [kind |-> "none", id |-> 0, val |-> "", code |-> "", message |-> ""]

\* Response.error = None.
NoError == [code |-> "", message |-> ""]

\* serde_json::to_vec of a Response that writes a member that is None as null.
EncodeResponseNulls(resp) ==
    [kind |-> "both", id |-> resp.id,
     val |-> IF resp.result = None THEN "null" ELSE resp.result,
     code |-> resp.error.code, message |-> resp.error.message]

\* serde_json::to_vec of a Response {id, result, error}: result and error are
\* skipped when None (skip_serializing_if). kind tells which of the two
\* members the frame has: "result", "error", "both" or "neither".
EncodeResponse(resp) ==
    [kind |-> IF resp.result # None
              THEN IF resp.error # NoError THEN "both" ELSE "result"
              ELSE IF resp.error # NoError THEN "error" ELSE "neither",
     id |-> resp.id,
     val |-> IF resp.result # None THEN resp.result ELSE "",
     code |-> resp.error.code, message |-> resp.error.message]

\* Response {id, result: Some(r)} that leaves the result member out.
ResultRespNull(id, r) ==
    [kind |-> "result", id |-> id, val |-> "null", code |-> "", message |-> ""]

\* Response {id, result: Some(r), ..Default::default()}, serialized.
ResultResp(id, r) ==
    EncodeResponse([id |-> id, result |-> r, error |-> NoError])

\* Display of ErrorCode: the text the code stands for.
CodeToString(code) ==
    CASE code = "ParseError"     -> "Invalid JSON was received by the server."
      [] code = "InvalidRequest" -> "The JSON sent is not a valid Request object."
      [] code = "MethodNotFound" -> "The method does not exist / is not available."
      [] code = "InvalidParams"  -> "Invalid method parameter(s)."
      [] code = "InternalError"  -> "Internal JSON-RPC error."
      [] OTHER                   -> "Server error"

\* ServiceSession::new_error_resp: message.unwrap_or(code.to_string()).
NewErrorResp(id, code, message) ==
    EncodeResponse([id |-> id, result |-> None,
                    error |-> [code |-> code,
                               message |-> IF message = None
                                           THEN CodeToString(code)
                                           ELSE message]])

\* What a handler hands to handle_resp: Ok(Some(frame)), Ok(None) or Err.
RetSome(frame) == [kind |-> "OkSome", frame |-> frame, code |-> "", message |-> ""]
RetNone == [kind |-> "OkNone", frame |-> NoFrame, code |-> "", message |-> ""]
RetErr(c, m) == [kind |-> "Err", frame |-> NoFrame, code |-> c, message |-> m]
\* No handler ran: the method is registered in neither registry.
RetNoHandler == [kind |-> "NoHandler", frame |-> NoFrame, code |-> "", message |-> ""]

\* to_handler's closure that builds a response whether or not the request
\* carries an id.
ToHandlerAnyId(id, params, fret) ==
    IF params = "bad" THEN RetErr("InvalidParams", "serde")
    ELSE IF fret.kind = "err" THEN RetErr(fret.code, fret.message)
    ELSE IF fret.kind = "some" THEN RetSome(ResultResp(id.v, fret.val))
    ELSE RetNone

\* The closure of to_handler and to_async_handler: params are decoded
\* (InvalidParams on failure), f is invoked and its error propagated; a response
\* is built only when the request has an id and f returned Some.
ToHandler(id, params, fret) ==
    IF params = "bad" THEN RetErr("InvalidParams", "serde")
    ELSE IF fret.kind = "err" THEN RetErr(fret.code, fret.message)
    ELSE IF id.some /\ fret.kind = "some" THEN RetSome(ResultResp(id.v, fret.val))
    ELSE RetNone

\* ServiceSession::handle_resp: the frame it sends, NoFrame when it sends none.
HandleResp(id, ret) ==
    IF ret.kind = "OkSome" THEN ret.frame
    ELSE IF ret.kind = "Err" /\ id.some THEN NewErrorResp(id.v, ret.code, None)
    ELSE NoFrame

\* ServiceSession::run on one request: the handler is cloned from the sync
\* registry, else from the async one, invoked, and its return handed to
\* handle_resp; a method in neither registry is passed over.
Dispatch(req, fret) ==
    IF req.method \in SyncMethods \cup AsyncMethods
    THEN ToHandler(req.id, req.params, fret)
    ELSE RetNoHandler

\* The state a registered user function has captured, as a count of the
\* invocations that have mutated it (F: FnMut + Clone).
NewHandlerState == 0
Invoke(state) == state + 1

\* HandlerClonerRegister::clone_from: the cloner of the method is called, it
\* returns a clone of the handler it holds, captured state included.
CloneFrom(reg, method) == reg[method]

\* A dispatch that invokes the handler the factory holds, not a clone of it.
KeepHandler(reg, method, h) == [reg EXCEPT ![method] = h]

\* The handler run owns the clone it invoked and drops it at the end of the
\* iteration, in state h: the registry is what it was.
DropHandler(reg, method, h) == reg

\* The user function is invoked: the method is registered and the params
\* decode.
Invokes(req) ==
    req.method \in SyncMethods \cup AsyncMethods /\ req.params = "ok"

NoRequest == [id |-> NoId, method |-> "", params |-> ""]
LastRequest(req, fret, ret) == [kind |-> "req", req |-> req, fret |-> fret, ret |-> ret]
\* A frame that does not decode as a Request; rid is the id a reader could
\* still recover from it, NoId when it could recover none.
LastGarbage(rid) ==
    [kind |-> "garbage", req |-> [id |-> rid, method |-> "", params |-> ""],
     fret |-> FNone, ret |-> RetNoHandler]
LastNone == [kind |-> "none", req |-> NoRequest, fret |-> FNone, ret |-> RetNoHandler]

\* One iteration of run that writes its reply in front of the replies the
\* output already took.
SessionDispatchReplyFirst(req, fret) ==
    /\ sPc = "running"
    /\ sCount < MaxRequests
    /\ sCount' = sCount + 1
    /\ LET ret == Dispatch(req, fret)
           out == HandleResp(req.id, ret) IN
        /\ sOut' = IF out # NoFrame THEN <<out>> \o sOut ELSE sOut
        /\ sOrigin' = IF out # NoFrame THEN <<sCount + 1>> \o sOrigin ELSE sOrigin
        /\ sLast' = LastRequest(req, fret, ret)
    /\ LET h == CloneFrom(hFactory, req.method) IN
        IF Invokes(req)
        THEN /\ hLast' = [seen |-> h, left |-> Invoke(h)]
             /\ hRuns' = [hRuns EXCEPT ![req.method] = @ + 1]
             /\ hFactory' = DropHandler(hFactory, req.method, Invoke(h))
        ELSE UNCHANGED <<hFactory, hRuns, hLast>>
    /\ UNCHANGED sPc
    /\ UNCHANGED nonServerVars

\* One iteration of run on a frame that decodes as a Request, the output
\* accepting what handle_resp sends.
SessionDispatch(req, fret) ==
    /\ sPc = "running"
    /\ sCount < MaxRequests
    /\ sCount' = sCount + 1
    /\ LET ret == Dispatch(req, fret)
           out == HandleResp(req.id, ret) IN
        /\ sOut' = IF out # NoFrame THEN Append(sOut, out) ELSE sOut
        /\ sOrigin' = IF out # NoFrame THEN Append(sOrigin, sCount + 1) ELSE sOrigin
        /\ sLast' = LastRequest(req, fret, ret)
    /\ LET h == CloneFrom(hFactory, req.method) IN
        IF Invokes(req)
        THEN /\ hLast' = [seen |-> h, left |-> Invoke(h)]
             /\ hRuns' = [hRuns EXCEPT ![req.method] = @ + 1]
             /\ hFactory' = DropHandler(hFactory, req.method, Invoke(h))
        ELSE UNCHANGED <<hFactory, hRuns, hLast>>
    /\ UNCHANGED sPc
    /\ UNCHANGED nonServerVars

\* One iteration of run whose reply the output refuses, the session logging
\* the failure and reading on.
SessionDispatchSinkFailContinue(req, fret) ==
    /\ sPc = "running"
    /\ sCount < MaxRequests
    /\ sCount' = sCount + 1
    /\ LET ret == Dispatch(req, fret) IN
        /\ HandleResp(req.id, ret) # NoFrame
        /\ sLast' = LastRequest(req, fret, ret)
    /\ LET h == CloneFrom(hFactory, req.method) IN
        IF Invokes(req)
        THEN /\ hLast' = [seen |-> h, left |-> Invoke(h)]
             /\ hRuns' = [hRuns EXCEPT ![req.method] = @ + 1]
             /\ hFactory' = DropHandler(hFactory, req.method, Invoke(h))
        ELSE UNCHANGED <<hFactory, hRuns, hLast>>
    /\ UNCHANGED <<sPc, sOut, sOrigin>>
    /\ UNCHANGED nonServerVars

\* One iteration of run on a frame that decodes as a Request, the output
\* refusing what handle_resp sends: run returns the error.
SessionDispatchSinkFail(req, fret) ==
    /\ sPc = "running"
    /\ sCount < MaxRequests
    /\ sCount' = sCount + 1
    /\ LET ret == Dispatch(req, fret) IN
        /\ HandleResp(req.id, ret) # NoFrame
        /\ sLast' = LastRequest(req, fret, ret)
    /\ sPc' = "stopped_sink"
    /\ LET h == CloneFrom(hFactory, req.method) IN
        IF Invokes(req)
        THEN /\ hLast' = [seen |-> h, left |-> Invoke(h)]
             /\ hRuns' = [hRuns EXCEPT ![req.method] = @ + 1]
             /\ hFactory' = DropHandler(hFactory, req.method, Invoke(h))
        ELSE UNCHANGED <<hFactory, hRuns, hLast>>
    /\ UNCHANGED <<sOut, sOrigin>>
    /\ UNCHANGED nonServerVars

\* One iteration of run on a frame that does not decode as a Request:
\* serde_json::from_slice(..)? returns the error from run.
SessionDecodeError(rid) ==
    /\ sPc = "running"
    /\ sCount < MaxRequests
    /\ sCount' = sCount + 1
    /\ sLast' = LastGarbage(rid)
    /\ sPc' = "stopped_decode"
    /\ UNCHANGED <<sOut, sOrigin, hFactory, hRuns, hLast>>
    /\ UNCHANGED nonServerVars

\* The input ends: the while loop is left and run returns Ok.
SessionInputEnd ==
    /\ sPc = "running"
    /\ sPc' = "stopped_eof"
    /\ UNCHANGED <<sOut, sCount, sLast, sOrigin, hFactory, hRuns, hLast>>
    /\ UNCHANGED nonServerVars

\* The input yields an error: try_next()? returns it from run.
SessionInputError ==
    /\ sPc = "running"
    /\ sPc' = "stopped_err"
    /\ UNCHANGED <<sOut, sCount, sLast, sOrigin, hFactory, hRuns, hLast>>
    /\ UNCHANGED nonServerVars

\* -------------------------------------------------------------- timer wheel

WheelSlots == 0..(WheelSteps - 1)
TimerIds == 1..MaxTimers

\* A slot of hashed: no entry, or the Vec of the Slots {round, t} pushed to it.
NoEntry == [present |-> FALSE, slots |-> <<>>]

\* add that places the Slot by the timeout alone.
WheelAddFromZero(h, t, timeout, value) ==
    LET slot == timeout % WheelSteps
        e == [round |-> timeout \div WheelSteps, t |-> value]
    IN [h EXCEPT ![slot] = [present |-> TRUE, slots |-> Append(@.slots, e)]]

\* TimeWheel::add: the Slot is pushed to (timeout + tick) % steps with round
\* (timeout + tick) / steps.
WheelAdd(h, t, timeout, value) ==
    LET slot == (timeout + t) % WheelSteps
        e == [round |-> (timeout + t) \div WheelSteps, t |-> value]
    IN [h EXCEPT ![slot] = [present |-> TRUE, slots |-> Append(@.slots, e)]]

IsCurrent(e) == e.round = 0
IsReserved(e) == e.round # 0

\* tick that returns the Slots of round 0 and puts none back.
WheelTickDropsReserved(h, t) ==
    LET step == t % WheelSteps IN
    IF h[step].present
    THEN LET cur == SelectSeq(h[step].slots, IsCurrent)
         IN [ready |-> TRUE,
             timers |-> [i \in 1..Len(cur) |-> cur[i].t],
             hashed |-> [h EXCEPT ![step] = [present |-> TRUE, slots |-> <<>>]]]
    ELSE [ready |-> FALSE, timers |-> <<>>, hashed |-> h]

\* TimeWheel::tick on tick count t: the entry of slot t % steps is removed,
\* its Slots of round 0 are returned, the others are put back with round - 1;
\* without entry the tick is Pending.
WheelTick(h, t) ==
    LET step == t % WheelSteps IN
    IF h[step].present
    THEN LET cur == SelectSeq(h[step].slots, IsCurrent)
             res == SelectSeq(h[step].slots, IsReserved)
         IN [ready |-> TRUE,
             timers |-> [i \in 1..Len(cur) |-> cur[i].t],
             hashed |-> [h EXCEPT ![step] =
                            [present |-> TRUE,
                             slots |-> [i \in 1..Len(res) |->
                                          [round |-> res[i].round - 1,
                                           t |-> res[i].t]]]]]
    ELSE [ready |-> FALSE, timers |-> <<>>, hashed |-> h]

NotAdded == [on |-> FALSE, at |-> 0, d |-> 0]

\* The timers added so far.
Added == {v \in TimerIds : added[v].on}

\* wheel.add(timeout, v) for the next timer id.
Add(timeout) ==
    /\ Cardinality(Added) < MaxTimers
    /\ LET v == Cardinality(Added) + 1 IN
        /\ hashed' = WheelAdd(hashed, tick, timeout, v)
        /\ added' = [added EXCEPT ![v] = [on |-> TRUE, at |-> tick, d |-> timeout]]
    /\ UNCHANGED <<tick, firedAt, timerIdSeq, tWakers, tFired>>
    /\ UNCHANGED nonWheelVars

\* wheel.tick().
Tick ==
    /\ tick < MaxTicks
    /\ LET r == WheelTick(hashed, tick) IN
        /\ hashed' = r.hashed
        /\ firedAt' = [v \in TimerIds |->
                          IF \E i \in 1..Len(r.timers) : r.timers[i] = v
                          THEN tick + 1
                          ELSE firedAt[v]]
    /\ tick' = tick + 1
    /\ UNCHANGED <<added, timerIdSeq, tWakers, tFired>>
    /\ UNCHANGED nonWheelVars

\* ----------------------------------------------------------- timer executor

\* The timers of a Vec the wheel returned.
TimersOf(returned) == {returned[i] : i \in 1..Len(returned)}

\* TimerExecutorImpl::poll: a fired timer is removed from fired and the poll
\* is Ready, else the waker is registered and the poll is Pending.
ExecutorPoll(w, f, timer) ==
    IF timer \in f
    THEN [wakers |-> w, fired |-> f \ {timer}, ready |-> TRUE]
    ELSE [wakers |-> w \cup {timer}, fired |-> f, ready |-> FALSE]

\* TimerExecutor::timeout: create_timer takes the next timer id and adds it to
\* the wheel.
CreateTimer(duration) ==
    /\ timerIdSeq < MaxTimers
    /\ timerIdSeq' = timerIdSeq + 1
    /\ hashed' = WheelAdd(hashed, tick, duration, timerIdSeq + 1)
    /\ UNCHANGED <<tick, added, firedAt, tWakers, tFired>>
    /\ UNCHANGED nonWheelVars

\* Timeout::poll on a timer the executor created.
TimeoutPoll(timer) ==
    /\ timer \in 1..timerIdSeq
    /\ LET r == ExecutorPoll(tWakers, tFired, timer) IN
        /\ tWakers' = r.wakers
        /\ tFired' = r.fired
    /\ UNCHANGED <<tick, hashed, added, firedAt, timerIdSeq>>
    /\ UNCHANGED nonWheelVars

\* TimerExecutorImpl::tick, called by the tick thread once a second: every
\* timer the wheel returns is inserted into fired, its waker is removed and
\* invoked.
ExecutorTick ==
    /\ tick < MaxTicks
    /\ LET r == WheelTick(hashed, tick) IN
        /\ hashed' = r.hashed
        /\ tFired' = tFired \cup TimersOf(r.timers)
        /\ tWakers' = tWakers \ TimersOf(r.timers)
    /\ tick' = tick + 1
    /\ UNCHANGED <<added, firedAt, timerIdSeq>>
    /\ UNCHANGED nonWheelVars

\* --------------------------------------------------------------- wire model

\* Sequences over S of length at most n.
SeqsUpTo(S, n) == UNION {[1..k -> S] : k \in 0..n}

\* JSON values offered as params: scalars, an object, and arrays of them.
JsonScalar(name) == [t |-> "scalar", v |-> name, items |-> <<>>]
JsonObject(name) == [t |-> "object", v |-> name, items |-> <<>>]
JsonArray(items) == [t |-> "array", v |-> "", items |-> items]
JsonAtoms == {JsonScalar("hello"), JsonScalar("10"), JsonObject("o")}
JsonElems == JsonAtoms \cup {JsonArray(q) : q \in SeqsUpTo(JsonAtoms, 1)}
JsonParams == JsonAtoms \cup {JsonArray(q) : q \in SeqsUpTo(JsonElems, MaxArrayLen)}

\* The normalization that unwraps the first element of every non-empty array.
NormalizeParamsFirst(value) ==
    IF value.t = "array" /\ Len(value.items) >= 1 THEN value.items[1] ELSE value

\* The closure of to_handler and to_async_handler, before it decodes params:
\* an array of length 1 is replaced by its element.
NormalizeParams(value) ==
    IF value.t = "array"
    THEN IF Len(value.items) = 1 THEN value.items[1] ELSE value
    ELSE value

\* The jsonrpc member of a JSON object: absent, a string, or a number.
AbsentMember == [present |-> FALSE, type |-> "", str |-> ""]
StringMember(str) == [present |-> TRUE, type |-> "string", str |-> str]
NumberMember(str) == [present |-> TRUE, type |-> "number", str |-> str]
VersionMembers ==
    {AbsentMember, NumberMember("2.0")}
        \cup {StringMember(str) : str \in {"2.0", "3.0", "2", "1.0", ""}}

\* The objects that carry a jsonrpc member of type Version.
WireObjects == {"Request", "Response"}

\* Version::serialize: serialize_str("2.0").
SerializeVersion == StringMember("2.0")

\* Deserialize of Version that takes every string.
DeserializeVersionAnyString(m) ==
    IF ~m.present THEN "missing field"
    ELSE IF m.type # "string" THEN "invalid type"
    ELSE "Version"

\* Deserialize of the jsonrpc field: the derive fails on a missing field,
\* VersionVisitor visits strings only, and visit_str fails on every string but
\* "2.0".
DeserializeVersion(m) ==
    IF ~m.present THEN "missing field"
    ELSE IF m.type # "string" THEN "invalid type"
    ELSE IF m.str # "2.0" THEN "Version string MUST be exactly 2.0"
    ELSE "Version"

\* The numeric error codes.
ParseErrorCode == -32700
InvalidRequestCode == -32600
MethodNotFoundCode == -32601
InvalidParamsCode == -32602
InternalErrorCode == -32603
\* The bounds of the range reserved for implementation-defined server errors.
ServerErrorFirst == -32000
ServerErrorLast == -32099

\* Numeric codes offered to ErrorCode::deserialize: the standard ones, the
\* reserved range with a margin on both sides, and some far from it.
CodeInputs ==
    {ParseErrorCode, InvalidRequestCode, MethodNotFoundCode, InvalidParamsCode,
     InternalErrorCode, 0, 1, -1}
        \cup ((ServerErrorLast - 2)..(ServerErrorFirst + 2))

CodeOk(variant, n) == [ok |-> TRUE, variant |-> variant, n |-> n]
CodeErr(n) == [ok |-> FALSE, variant |-> "Invalid JSONRPC error code", n |-> n]

\* ErrorCode::deserialize on the integer the visitor returned.
DeserializeErrorCode(code) ==
    CASE code = ParseErrorCode     -> CodeOk("ParseError", code)
      [] code = InvalidRequestCode -> CodeOk("InvalidRequest", code)
      [] code = MethodNotFoundCode -> CodeOk("MethodNotFound", code)
      [] code = InvalidParamsCode  -> CodeOk("InvalidParams", code)
      [] code = InternalErrorCode  -> CodeOk("InternalError", code)
      [] OTHER ->
            IF code > ServerErrorFirst /\ code < ServerErrorLast
            THEN CodeOk("ServerError", code)
            ELSE CodeErr(code)

\* An ErrorCode: one of the five standard variants, or ServerError(n, text).
StandardCode(variant, n) == [variant |-> variant, n |-> n, text |-> ""]
ServerErrorCode(n, text) == [variant |-> "ServerError", n |-> n, text |-> text]
NoCode == [variant |-> "", n |-> 0, text |-> ""]
ErrorCodes ==
    {StandardCode("ParseError", ParseErrorCode),
     StandardCode("InvalidRequest", InvalidRequestCode),
     StandardCode("MethodNotFound", MethodNotFoundCode),
     StandardCode("InvalidParams", InvalidParamsCode),
     StandardCode("InternalError", InternalErrorCode)}
        \cup {ServerErrorCode(n, text) :
                 n \in {ServerErrorFirst, ServerErrorFirst - 1, ServerErrorLast},
                 text \in {"", "db"}}

\* ErrorCode::serialize: the number of the variant, the text of a ServerError
\* is not written.
SerializeErrorCode(c) ==
    CASE c.variant = "ParseError"     -> ParseErrorCode
      [] c.variant = "InvalidRequest" -> InvalidRequestCode
      [] c.variant = "MethodNotFound" -> MethodNotFoundCode
      [] c.variant = "InvalidParams"  -> InvalidParamsCode
      [] c.variant = "InternalError"  -> InternalErrorCode
      [] OTHER                        -> c.n

\* The ErrorCode ErrorCode::deserialize returned: ServerError(code, "") for a
\* ServerError.
ErrorCodeOf(d) == [variant |-> d.variant, n |-> d.n, text |-> ""]

\* Response.error, an Option<Error>.
SomeError(code, message) == [some |-> TRUE, code |-> code, message |-> message]
NoneError == [some |-> FALSE, code |-> NoCode, message |-> ""]

\* A member of a JSON object that holds a value: absent, null, or a value.
AbsentValue == [present |-> FALSE, null |-> FALSE, v |-> ""]
NullValue == [present |-> TRUE, null |-> TRUE, v |-> ""]
SomeValue(v) == [present |-> TRUE, null |-> FALSE, v |-> v]

\* The error member of a JSON object.
AbsentErrorMember == [present |-> FALSE, code |-> 0, message |-> ""]
ErrorMember(code, message) == [present |-> TRUE, code |-> code, message |-> message]

\* The Requests and Responses that are encoded: requests with and without id,
\* responses with no result, with the result null (Some(Value::Null)) and
\* with another result, without error and with an error of every code.
WireRequests ==
    {[id |-> i, method |-> "echo", params |-> p] :
        i \in {NoId} \cup {SomeId(k) : k \in 1..2},
        p \in JsonAtoms}
WireResponses ==
    {[id |-> i, result |-> r, error |-> e] :
        i \in 1..2,
        r \in {None, "null", "hello"},
        e \in {NoneError}
                \cup {SomeError(c, "failed") : c \in ErrorCodes}}

DecodeOk(value) == [ok |-> TRUE, value |-> value]
DecodeFail == [ok |-> FALSE]

\* serde_json::to_value of a Request: the id member is skipped when the id is
\* None, jsonrpc is written by Version::serialize.
SerializeRequest(q) ==
    [id |-> EncodeRequest(q.id), jsonrpc |-> SerializeVersion,
     method |-> q.method, params |-> q.params]

\* serde_json::from_value of a Request: a missing id member is None, the
\* jsonrpc member goes through Version::deserialize.
DeserializeRequest(j) ==
    IF DeserializeVersion(j.jsonrpc) # "Version" THEN DecodeFail
    ELSE DecodeOk([id |-> IF j.id.hasId THEN SomeId(j.id.id) ELSE NoId,
                   method |-> j.method, params |-> j.params])

\* serde_json::to_value of a Response: result and error are skipped when
\* None; a result Some(Value::Null) is written as null; the error's code is
\* written by ErrorCode::serialize.
SerializeResponse(r) ==
    [id |-> r.id, jsonrpc |-> SerializeVersion,
     result |-> IF r.result = None THEN AbsentValue
                ELSE IF r.result = "null" THEN NullValue
                ELSE SomeValue(r.result),
     error |-> IF r.error.some
               THEN ErrorMember(SerializeErrorCode(r.error.code), r.error.message)
               ELSE AbsentErrorMember]

\* serde_json::from_value of a Response: a member of type Option is None when
\* it is missing and when it is null; the error's code goes through
\* ErrorCode::deserialize, whose failure fails the whole Response.
DeserializeResponse(j) ==
    IF DeserializeVersion(j.jsonrpc) # "Version" THEN DecodeFail
    ELSE IF j.error.present /\ ~DeserializeErrorCode(j.error.code).ok THEN DecodeFail
    ELSE DecodeOk(
            [id |-> j.id,
             result |-> IF j.result.present /\ ~j.result.null
                        THEN j.result.v ELSE None,
             error |-> IF j.error.present
                       THEN SomeError(ErrorCodeOf(DeserializeErrorCode(j.error.code)),
                                      j.error.message)
                       ELSE NoneError])

\* A Request is encoded and the encoding decoded.
RoundTripRequest(q) ==
    /\ wOp' = "round_trip"
    /\ wIn' = [object |-> "Request", value |-> q]
    /\ wOut' = DeserializeRequest(SerializeRequest(q))
    /\ UNCHANGED nonWireVars

\* A Response is encoded and the encoding decoded.
RoundTripResponse(r) ==
    /\ wOp' = "round_trip"
    /\ wIn' = [object |-> "Response", value |-> r]
    /\ wOut' = DeserializeResponse(SerializeResponse(r))
    /\ UNCHANGED nonWireVars

\* The handler's closure normalizes the params of a request.
Normalize(value) ==
    /\ wOp' = "normalize"
    /\ wIn' = value
    /\ wOut' = NormalizeParams(value)
    /\ UNCHANGED nonWireVars

\* A Request or a Response is serialized: its jsonrpc member.
Serialize(object) ==
    /\ wOp' = "serialize"
    /\ wIn' = object
    /\ wOut' = SerializeVersion
    /\ UNCHANGED nonWireVars

\* A Request or a Response is deserialized from an object that is well formed
\* but for its jsonrpc member m.
Deserialize(object, m) ==
    /\ wOp' = "deserialize"
    /\ wIn' = [object |-> object, jsonrpc |-> m]
    /\ wOut' = DeserializeVersion(m)
    /\ UNCHANGED nonWireVars

\* An error code is deserialized from the integer code.
DeserializeCode(code) ==
    /\ wOp' = "error_code"
    /\ wIn' = code
    /\ wOut' = DeserializeErrorCode(code)
    /\ UNCHANGED nonWireVars

\* ---------------------------------------------------------- specifications

InitWire ==
    /\ wOp = "none"
    /\ wIn = None
    /\ wOut = None

InitWheel ==
    /\ tick = 0
    /\ hashed = [s \in WheelSlots |-> NoEntry]
    /\ added = [v \in TimerIds |-> NotAdded]
    /\ firedAt = [v \in TimerIds |-> 0]
    /\ timerIdSeq = 0
    /\ tWakers = {}
    /\ tFired = {}

InitServer ==
    /\ sPc = "running"
    /\ sOut = <<>>
    /\ sCount = 0
    /\ sLast = LastNone
    /\ sOrigin = <<>>
    /\ hFactory = [m \in SyncMethods \cup AsyncMethods |-> NewHandlerState]
    /\ hRuns = [m \in SyncMethods \cup AsyncMethods |-> 0]
    /\ hLast = [seen |-> NewHandlerState, left |-> NewHandlerState]

InitPool ==
    /\ seq = 1
    /\ wakers = {}
    /\ fired = [i \in PoolIds |-> None]
    /\ handle = [i \in PoolIds |-> "none"]
    /\ got = [i \in PoolIds |-> None]
    /\ woken = [i \in PoolIds |-> FALSE]
    /\ firstVal = [i \in PoolIds |-> None]
    /\ issued = <<>>
    /\ polled = [i \in PoolIds |-> FALSE]
    /\ lockAtWake = "none"

InitClient ==
    /\ qSeq = 1
    /\ pending = [i \in FrameIds |-> NoSlot]
    /\ callPc = [i \in CallIds |-> "none"]
    /\ callRes = [i \in CallIds |-> NoRes]
    /\ queue = <<>>
    /\ wire = <<>>
    /\ sinkFails = 0
    /\ recvPc = "running"
    /\ recvCount = 0
    /\ lastItem = NoItem
    /\ stopSeq = 0
    /\ inflightAtStop = {}

InitClientExt ==
    /\ timers = {}
    /\ notified = 0

Init ==
    /\ InitPool
    /\ InitClient
    /\ InitClientExt
    /\ InitServer
    /\ InitWheel
    /\ InitWire

NextPool ==
    \/ Join
    \/ \E id \in PoolIds : Poll(id)
    \/ \E id \in PoolIds, v \in PoolValues : Complete(id, v)
    \/ \E id \in PoolIds : DropJoinable(id)

SpecPool == Init /\ [][NextPool]_vars

\* The executor polls a Joinable it has spawned, and polls it again after its
\* waker was invoked; completions and drops are the environment's.
FairSpecPool ==
    /\ SpecPool
    /\ \A id \in PoolIds : WF_vars(OwedPoll(id))

CallStep ==
    \/ CallRegister
    \/ \E id \in CallIds : CallEnqueue(id)
    \/ \E id \in CallIds : CallAwait(id)
    \/ \E id \in CallIds : CallDrop(id)

SendStep == SendOk \/ SendFail

RecvStep ==
    \/ \E f \in RespFrames : RecvResponse(f)
    \/ RecvDecodeError
    \/ RecvInputError
    \/ RecvInputEnd

NextClient == CallStep \/ SendStep \/ RecvStep

SpecClient == Init /\ [][NextClient]_vars

\* The executor keeps polling the spawned send_loop and the futures of the
\* calls their callers await; the input and the callers' drops are the
\* environment's.
FairSpecClient ==
    /\ SpecClient
    /\ WF_vars(SendStep)
    /\ \A id \in CallIds :
        WF_vars(CallEnqueue(id) \/ CallAwait(id))

\* The responses of a peer that answers a call with a result.
ResultFrames == {f \in RespFrames : f.id \in CallIds /\ f.hasResult /\ ~f.hasError}

\* The send half of a client session: calls and notifications fill the send
\* queue, send_loop drains it into a sink that may refuse frames, and the peer
\* answers some of the calls.
NextSend ==
    \/ CallRegister
    \/ \E id \in CallIds : CallEnqueue(id)
    \/ \E id \in CallIds : CallAwait(id)
    \/ \E id \in CallIds : CallDrop(id)
    \/ Notification
    \/ SendOk
    \/ SendFail
    \/ \E f \in ResultFrames : RecvResponse(f)

SpecSend == Init /\ [][NextSend]_vars

\* A client session whose calls may carry a timer, with a peer that answers
\* some calls with a result and stays silent for others.
NextTimer ==
    \/ CallRegister
    \/ CallWithTimer
    \/ \E id \in CallIds : CallEnqueue(id)
    \/ \E id \in CallIds : CallAwait(id)
    \/ SendOk
    \/ \E f \in ResultFrames : RecvResponse(f)
    \/ \E id \in CallIds : TimerExpire(id)

SpecTimer == Init /\ [][NextTimer]_vars

\* The executor keeps polling send_loop and the futures of the calls; when a
\* timer expires and what the peer sends are the environment's.
FairSpecTimer ==
    /\ SpecTimer
    /\ WF_vars(SendOk)
    /\ \A id \in CallIds :
        WF_vars(CallEnqueue(id) \/ CallAwait(id))

NextServer ==
    \/ \E req \in InRequests, fret \in FReturns : SessionDispatch(req, fret)
    \/ \E req \in InRequests, fret \in FReturns : SessionDispatchSinkFail(req, fret)
    \/ \E rid \in {NoId} \cup {SomeId(k) : k \in ReqIds} : SessionDecodeError(rid)
    \/ SessionInputEnd
    \/ SessionInputError

SpecServer == Init /\ [][NextServer]_vars

NextWheel ==
    \/ \E timeout \in 0..MaxTimeout : Add(timeout)
    \/ Tick

SpecWheel == Init /\ [][NextWheel]_vars

NextExecutor ==
    \/ \E duration \in 0..MaxTimeout : CreateTimer(duration)
    \/ \E timer \in TimerIds : TimeoutPoll(timer)
    \/ ExecutorTick

SpecExecutor == Init /\ [][NextExecutor]_vars

\* The two registries of wakers, the callback pool and the timer executor.
\* They share no state: each one runs with the other at rest.
NextRegistries ==
    \/ InitWheel /\ NextPool
    \/ InitPool /\ NextExecutor

SpecRegistries == Init /\ [][NextRegistries]_vars

NextWire ==
    \/ \E value \in JsonParams : Normalize(value)
    \/ \E object \in WireObjects : Serialize(object)
    \/ \E object \in WireObjects, m \in VersionMembers : Deserialize(object, m)
    \/ \E code \in CodeInputs : DeserializeCode(code)
    \/ \E q \in WireRequests : RoundTripRequest(q)
    \/ \E r \in WireResponses : RoundTripResponse(r)

SpecWire == Init /\ [][NextWire]_vars

\* ------------------------------------------------------------------ claims

\* C2: the ids join hands out start at 1 and strictly increase with every
\* allocation, whichever clone allocates; no id is handed out twice.
C2_IdsStartAtOneAndIncrease ==
    /\ Len(issued) > 0 => issued[1] = 1
    /\ \A j, k \in 1..Len(issued) : j < k => issued[j] < issued[k]

C2_Witness == Len(issued) >= 2 /\ handle[1] = "live" /\ handle[2] = "live"

\* C3: when complete is invoked several times for a pending id before the
\* consumer takes the output, the consumer receives the output of the first
\* completion.
C3_FirstCompletionWins ==
    \A i \in PoolIds :
        (got[i] # None /\ firstVal[i] # None) => got[i] = firstVal[i]

\* C4: once the consumer has taken the output of an id, a later complete on
\* that id retains nothing for it: no stored output, no waker.
C4_NothingRetainedAfterTake ==
    \A i \in PoolIds : handle[i] = "done" => (fired[i] = None /\ i \notin wakers)

\* C5: a handle dropped before completion releases its slot, registered waker
\* included, and a later complete on its id stores nothing and wakes no one.
C5_DroppedSlotReleased ==
    \A i \in PoolIds :
        handle[i] = "dropped" => (i \notin wakers /\ fired[i] = None /\ ~woken[i])

\* C1: a call that returns the peer's value returns the outcome of a response
\* frame that carried the call's own id, and no slot is ever completed with the
\* outcome of a frame that carried another id.
C1_ResponseRoutedById ==
    \A id \in CallIds :
        /\ (callPc[id] = "returned" /\ callRes[id].kind = "ok")
                => callRes[id].src = id
        /\ (pending[id].st = "Ready" /\ pending[id].res.src # 0)
                => pending[id].res.src = id

C1_Witness ==
    /\ callPc[1] = "returned" /\ callRes[1] = OkRes("v", 1)
    /\ callPc[2] = "returned" /\ callRes[2] = OkRes("null", 2)

\* C6: once the input has ended or failed, recv_loop has stopped, no call
\* registered before that moment is still waiting, and every call that was
\* waiting at that moment is cancelled: it resolves with an InternalError.
C6_InputEndCancelsInflight ==
    recvPc \in {"stopped_eof", "stopped_err"} =>
        /\ \A id \in CallIds : id < stopSeq => pending[id].st # "Waiting"
        /\ \A id \in inflightAtStop :
            \/ pending[id].st = "Cancelled"
            \/ callPc[id] = "dropped"
            \/ /\ callPc[id] = "returned"
               /\ callRes[id] = ErrRes("InternalError", "canceled", 0)

C6_Witness ==
    /\ recvPc = "stopped_err"
    /\ \E id \in inflightAtStop :
        callPc[id] = "returned" /\ callRes[id].code = "InternalError"

\* C7: after the input stream closed with an error, every call issued
\* afterwards eventually fails (or is abandoned by its caller); none stays
\* pending forever.
C7_CallsAfterInputErrorFail ==
    \A id \in CallIds :
        [](/\ recvPc = "stopped_err"
           /\ stopSeq <= id
           /\ callPc[id] \in {"registered", "awaiting"}
           => <>(\/ callPc[id] = "dropped"
                 \/ callPc[id] = "returned" /\ callRes[id].kind = "err"))

\* The state C7's counterexample ends in: the request of a call issued after
\* the input error is on the wire, and the call waits.
C7_Witness ==
    \E id \in CallIds :
        /\ recvPc = "stopped_err"
        /\ stopSeq <= id
        /\ callPc[id] = "awaiting"
        /\ pending[id].st = "Waiting"
        /\ queue = <<>>
        /\ \E k \in 1..Len(wire) : wire[k].id = id

\* C8: a well-formed response whose id has no waiting slot (completed,
\* cancelled, dropped or never assigned) changes no pending call, and recv_loop
\* goes on running.
C8_UnknownIdDiscarded ==
    [][(/\ recvCount' = recvCount + 1
        /\ lastItem'.type = "resp"
        /\ pending[lastItem'.id].st # "Waiting")
       => (/\ pending' = pending
           /\ callPc' = callPc
           /\ callRes' = callRes
           /\ recvPc' = "running")]_vars

C8_Witness ==
    /\ lastItem.type = "resp"
    /\ lastItem.id \notin CallIds
    /\ recvPc = "running"
    /\ Waiting(pending) # {}

\* C9: a frame that does not decode as a Response stops recv_loop, which reads
\* no frame after it, and every call in flight at that moment is cancelled.
C9_DecodeErrorCancelsAndStops ==
    /\ lastItem.type = "garbage" => recvPc = "stopped_decode"
    /\ recvPc = "stopped_decode" =>
        /\ lastItem.type = "garbage"
        /\ \A id \in CallIds : id < stopSeq => pending[id].st # "Waiting"
        /\ \A id \in inflightAtStop :
            \/ pending[id].st = "Cancelled"
            \/ callPc[id] = "dropped"
            \/ /\ callPc[id] = "returned"
               /\ callRes[id] = ErrRes("InternalError", "canceled", 0)

C9_Witness ==
    /\ recvPc = "stopped_decode"
    /\ \E id \in inflightAtStop :
        callPc[id] = "returned" /\ callRes[id].code = "InternalError"

\* C10: the two cancel_all of recv_loop's input-error path leave the table as
\* one cancel_all does: every waiting slot is cancelled, once, and every other
\* slot (a completed one included) is left as it was.
C10_CancelAllIdempotent ==
    [][(recvPc = "running" /\ recvPc' = "stopped_err")
       => (/\ pending' = CancelAll(pending)
           /\ \A i \in FrameIds :
                /\ pending[i].st = "Waiting" => pending'[i] = CancelledSlot
                /\ pending[i].st # "Waiting" => pending'[i] = pending[i])]_vars

C10_Witness ==
    /\ recvPc = "stopped_err"
    /\ inflightAtStop # {}
    /\ \E i \in CallIds : pending[i].st = "Ready"
    /\ \E i \in inflightAtStop : pending[i].st = "Cancelled"

\* C11: a call issued with a timer whose timer expires while the peer is silent
\* for its id (the expiry finds its slot waiting and times it out) eventually
\* returns an InternalError (timeout), and the expiry of a call's timer changes
\* no other pending call: no other slot, no call's position, no call's result.
C11_TimerFailsOnlyItsCall ==
    /\ \A id \in CallIds :
        [](pending[id].st = "TimedOut"
           => <>(/\ callPc[id] = "returned"
                 /\ callRes[id] = ErrRes("InternalError", "timeout", 0)))
    /\ [][\A id \in CallIds :
            (id \in timers /\ id \notin timers')
            => (/\ \A j \in FrameIds \ {id} : pending'[j] = pending[j]
                /\ pending[id].st = "Waiting" => pending'[id] = TimedOutSlot
                /\ callPc' = callPc
                /\ callRes' = callRes)]_vars

C11_Witness ==
    \E id, other \in CallIds :
        /\ callPc[id] = "returned"
        /\ callRes[id] = ErrRes("InternalError", "timeout", 0)
        /\ callPc[other] = "returned"
        /\ callRes[other] = OkRes("v", other)

\* C12: when the sink refuses a queued frame, the waiting call of the id the
\* frame carries is completed with an InternalError (send failed), which is what
\* that call returns; a refused frame without id completes nothing; no other
\* slot, and no call's position or result, is changed by the failure.
C12_SinkFailureFailsOnlyItsCall ==
    [][/\ sinkFails' = sinkFails + 1
          => LET f == Head(queue) IN
             /\ (f.hasId /\ pending[f.id].st = "Waiting")
                => pending'[f.id] =
                      [st |-> "Ready", res |-> ErrRes("InternalError", "send", 0)]
             /\ ~f.hasId => pending' = pending
             /\ \A j \in FrameIds : (~f.hasId \/ j # f.id) => pending'[j] = pending[j]
             /\ callPc' = callPc
             /\ callRes' = callRes
       /\ \A id \in CallIds :
            (/\ pending[id] = [st |-> "Ready", res |-> ErrRes("InternalError", "send", 0)]
             /\ callPc[id] = "awaiting"
             /\ callPc'[id] = "returned")
            => callRes'[id] = ErrRes("InternalError", "send", 0)]_vars

C12_Witness ==
    \E id, other \in CallIds :
        /\ callPc[id] = "returned"
        /\ callRes[id] = ErrRes("InternalError", "send", 0)
        /\ callPc[other] = "awaiting"
        /\ pending[other].st = "Waiting"
        /\ \E k \in 1..Len(wire) : wire[k] = EncodeRequest(SomeId(other))

\* C13: after the first sink failure send_loop has terminated: it writes no
\* further frame to the sink, and the send queue accepts no further frame.
C13_SendLoopEndsAfterSinkFailure ==
    [][sinkFails > 0 => (wire' = wire /\ Len(queue') <= Len(queue))]_vars

\* The state C13's counterexample passes through: the sink refused a frame and
\* accepted a frame after it.
C13_Witness ==
    /\ sinkFails > 0
    /\ \E id \in CallIds :
        /\ callRes[id] = ErrRes("InternalError", "send", 0)
        /\ \E k \in 1..Len(wire) : wire[k].hasId /\ wire[k].id > id

\* C14: the sink receives the frames in the order the send queue accepted them:
\* a frame enters the queue at its tail only, the frame written to the sink is
\* always the oldest queued one, it is written once (it leaves the queue as it
\* is written), and a frame leaves the queue unwritten only when the sink
\* refused it.
C14_SinkOrderIsQueueOrder ==
    [][/\ wire' # wire
          => (/\ queue # <<>>
              /\ wire' = Append(wire, Head(queue))
              /\ queue' = Tail(queue))
       /\ queue' # queue
          => \/ /\ queue # <<>>
                /\ queue' = Tail(queue)
                /\ \/ wire' = Append(wire, Head(queue))
                   \/ wire' = wire /\ sinkFails' = sinkFails + 1
             \/ /\ Len(queue') = Len(queue) + 1
                /\ SubSeq(queue', 1, Len(queue)) = queue
                /\ wire' = wire]_vars

C14_Witness ==
    /\ sinkFails = 0
    /\ Len(wire) = MaxCalls + MaxNotify
    /\ wire[1] = EncodeRequest(SomeId(MaxCalls))
    /\ wire[2] = EncodeRequest(NoId)

\* The frames of a sequence that have no id member.
NoIdFrames(frames) == {k \in 1..Len(frames) : ~frames[k].hasId}

ReadsRequest == sCount' = sCount + 1 /\ sLast'.kind = "req"

Registered(method) == method \in SyncMethods \cup AsyncMethods

\* C16: the session writes no frame in the iteration that handles a request
\* without id, whatever the method, the params and the return of the handler,
\* and goes on running.
C16_NoReplyToNotification ==
    [][(ReadsRequest /\ ~sLast'.req.id.some)
       => (sOut' = sOut /\ sPc' = "running")]_vars

C16_Witness ==
    /\ sCount = 2
    /\ sLast.kind = "req"
    /\ ~sLast.req.id.some
    /\ sLast.req.method = "echo"
    /\ sLast.req.params = "ok"
    /\ sLast.fret.kind = "some"
    /\ Len(sOut) = 1
    /\ sPc = "running"

\* C17: for a request whose method is in neither registry the session writes
\* exactly one error response with the request's id and code MethodNotFound
\* when the request has an id, and nothing when it has none, and goes on
\* running.
C17_UnknownMethodReplied ==
    [][(ReadsRequest /\ ~Registered(sLast'.req.method))
       => (/\ sPc' = "running"
           /\ ~sLast'.req.id.some => sOut' = sOut
           /\ sLast'.req.id.some
              => (/\ Len(sOut') = Len(sOut) + 1
                  /\ SubSeq(sOut', 1, Len(sOut)) = sOut
                  /\ sOut'[Len(sOut')].kind = "error"
                  /\ sOut'[Len(sOut')].id = sLast'.req.id.v
                  /\ sOut'[Len(sOut')].code = "MethodNotFound"))]_vars

\* The state C17's counterexample ends in: a request with id and unknown method
\* was read, nothing was written for it.
C17_Witness ==
    /\ sLast.kind = "req"
    /\ sLast.req.id.some
    /\ ~Registered(sLast.req.method)
    /\ sOut = <<>>
    /\ sPc = "running"

\* C18: a frame that does not decode as a Request leaves the session running.
C18_DecodeErrorKeepsSession ==
    sLast.kind = "garbage" => sPc = "running"

\* The state C18's counterexample ends in: the session stopped on the frame
\* that did not decode, after it served a request.
C18_Witness ==
    /\ sLast.kind = "garbage"
    /\ sPc = "stopped_decode"
    /\ Len(sOut) = 1

\* C19: when the handler returns Err(e) for a request with an id (and the
\* output accepts the frame), the session writes exactly one error response
\* with the request's id, the code of e and the message of e.
C19_HandlerErrorReplied ==
    [][(/\ ReadsRequest
        /\ sLast'.ret.kind = "Err"
        /\ sLast'.req.id.some
        /\ sPc' = "running")
       => sOut' = Append(sOut, [kind |-> "error",
                                id |-> sLast'.req.id.v,
                                val |-> "",
                                code |-> sLast'.ret.code,
                                message |-> sLast'.ret.message])]_vars

\* The state C19's counterexample ends in: the error response written for the
\* handler's error carries the text of the code, not the handler's message.
C19_Witness ==
    /\ sLast.kind = "req"
    /\ sLast.fret = FErr("ServerError", "boom")
    /\ sLast.req.id = SomeId(1)
    /\ sOut = <<NewErrorResp(1, "ServerError", None)>>
    /\ sOut[1].message # "boom"

OriginsIncrease ==
    \A i, j \in 1..Len(sOrigin) : i < j => sOrigin[i] < sOrigin[j]

\* C21: the session handles one request per iteration and writes the reply
\* before it reads the next frame: a frame written in an iteration answers the
\* request read in that iteration, at most one frame is written per request,
\* and the frames of the output are in the order of the requests they answer.
C21_RepliesInRequestOrder ==
    /\ Len(sOrigin) = Len(sOut)
    /\ OriginsIncrease
    /\ \A i \in 1..Len(sOrigin) : sOrigin[i] <= sCount
    /\ (sLast.kind = "req" /\ HandleResp(sLast.req.id, sLast.ret) # NoFrame
            /\ sPc = "running")
        => (/\ Len(sOut) >= 1
            /\ sOrigin[Len(sOrigin)] = sCount
            /\ sOut[Len(sOut)] = HandleResp(sLast.req.id, sLast.ret))

C21_Witness ==
    /\ sCount = 2
    /\ sOrigin = <<1, 2>>
    /\ sOut = <<ResultResp(2, "x"), ResultResp(1, "y")>>
    /\ sLast.req.method = "event"

\* C22: for a request whose params do not decode into the handler's parameter
\* type the handler's closure returns InvalidParams with the decode failure as
\* message before it invokes the user function, and, the request having an id
\* (and the output accepting the frame), the session writes one error response
\* with code InvalidParams whose message is the decode failure.
C22_BadParamsReplied ==
    [][(/\ ReadsRequest
        /\ Registered(sLast'.req.method)
        /\ sLast'.req.params = "bad"
        /\ sLast'.req.id.some
        /\ sPc' = "running")
       => (/\ sLast'.ret = RetErr("InvalidParams", "serde")
           /\ sOut' = Append(sOut, [kind |-> "error",
                                    id |-> sLast'.req.id.v,
                                    val |-> "",
                                    code |-> "InvalidParams",
                                    message |-> "serde"]))]_vars

\* The state C22's counterexample ends in: the error response written for
\* params that did not decode carries the text of the code, not the decode
\* failure.
C22_Witness ==
    /\ sLast.kind = "req"
    /\ sLast.req = [id |-> SomeId(1), method |-> "echo", params |-> "bad"]
    /\ sLast.ret = RetErr("InvalidParams", "serde")
    /\ sOut = <<NewErrorResp(1, "InvalidParams", None)>>
    /\ sOut[1].message = "Invalid method parameter(s)."

\* C23: an iteration whose reply the output refuses ends the session, and a
\* session ended that way reads no further frame and writes nothing.
C23_SinkFailureEndsSession ==
    [][/\ (/\ ReadsRequest
           /\ HandleResp(sLast'.req.id, sLast'.ret) # NoFrame
           /\ sOut' = sOut)
          => sPc' = "stopped_sink"
       /\ sPc = "stopped_sink"
          => (sPc' = "stopped_sink" /\ sCount' = sCount /\ sOut' = sOut
              /\ sLast' = sLast)]_vars

C23_Witness ==
    /\ sPc = "stopped_sink"
    /\ sCount = 1
    /\ sCount < MaxRequests
    /\ sOut = <<>>
    /\ sLast.req.id = SomeId(1)

\* C24: on a frame that does not decode as a Request the session writes an
\* error response with code ParseError for the frame's id when the id can be
\* recovered, writes nothing when it cannot, and goes on running.
C24_DecodeErrorReplied ==
    [][(sCount' = sCount + 1 /\ sLast'.kind = "garbage")
       => (/\ sPc' = "running"
           /\ sLast'.req.id.some
              => sOut' = Append(sOut, NewErrorResp(sLast'.req.id.v,
                                                   "ParseError", None))
           /\ ~sLast'.req.id.some => sOut' = sOut)]_vars

\* The state C24's counterexample ends in: the frame's id could be recovered,
\* no ParseError response was written and the session stopped.
C24_Witness ==
    /\ sLast = LastGarbage(SomeId(1))
    /\ sPc = "stopped_decode"
    /\ sOut = <<>>

\* C27: every frame of the session's output has exactly one of the members
\* result and error: a frame with result carries no error, a frame with error
\* carries no result.
C27_ExactlyOneOfResultError ==
    \A i \in 1..Len(sOut) :
        /\ sOut[i].kind \in {"result", "error"}
        /\ sOut[i].kind = "result" => (sOut[i].code = "" /\ sOut[i].message = "")
        /\ sOut[i].kind = "error" => (sOut[i].val = "" /\ sOut[i].code # "")

C27_Witness ==
    /\ Len(sOut) = 2
    /\ sOut[1].kind = "result"
    /\ sOut[2].kind = "error"

\* C25: the closure offers the handler the single element of params that are
\* an array of length 1, and params of every other shape (an array of length 0
\* or of length 2 and more, an object, a scalar) as they came.
C25_ParamsNormalization ==
    wOp = "normalize"
        => IF wIn.t = "array" /\ Len(wIn.items) = 1
           THEN wOut = wIn.items[1]
           ELSE wOut = wIn

C25_Witness ==
    /\ wOp = "normalize"
    /\ wIn = JsonArray(<<JsonArray(<<JsonScalar("hello")>>)>>)
    /\ wOut = JsonArray(<<JsonScalar("hello")>>)

\* C26: a timer added with timeout d when the tick count is t is returned by
\* the (d + 1)-th tick after the add, that is by the tick that raises the tick
\* count to t + d + 1, and by no earlier and no later one, whatever t is.
C26_FiresAtTimeoutPlusOne ==
    \A v \in Added :
        /\ firedAt[v] # 0 => firedAt[v] = added[v].at + added[v].d + 1
        /\ firedAt[v] = 0 => tick <= added[v].at + added[v].d

\* The state C26's counterexample ends in: a timer added with timeout 0 after
\* the wheel has wrapped is still in the wheel after the next tick.
C26_Witness ==
    /\ added[1] = [on |-> TRUE, at |-> WheelSteps, d |-> 0]
    /\ tick = WheelSteps + 1
    /\ firedAt[1] = 0
    /\ hashed[0].slots = <<[round |-> 0, t |-> 1]>>

\* C28: recv_loop on a response that has neither result nor error, a call
\* waiting under the response's id: the call's slot becomes ready with
\* Ok(null).
C28_EmptyResponseIsOkNull ==
    [][\A f \in RespFrames :
          (/\ ~f.hasResult
           /\ ~f.hasError
           /\ pending[f.id].st = "Waiting"
           /\ RecvResponse(f))
          => pending'[f.id] = [st |-> "Ready", res |-> OkRes("null", f.id)]]_vars

C28_Witness ==
    /\ callPc[1] = "returned"
    /\ callRes[1] = OkRes("null", 1)
    /\ lastItem = [type |-> "resp", id |-> 1]
    /\ recvCount = 1

\* C29: a serialized Request or Response has the jsonrpc member "2.0", and a
\* Request or Response is not deserialized from an object whose jsonrpc member
\* is absent or a string other than "2.0".
C29_VersionChecked ==
    /\ wOp = "serialize" => wOut = StringMember("2.0")
    /\ (wOp = "deserialize"
            /\ (~wIn.jsonrpc.present
                    \/ (wIn.jsonrpc.type = "string" /\ wIn.jsonrpc.str # "2.0")))
        => wOut # "Version"
    /\ (wOp = "deserialize" /\ wIn.jsonrpc = StringMember("2.0"))
        => wOut = "Version"

C29_Witness ==
    /\ wOp = "deserialize"
    /\ wIn = [object |-> "Response", jsonrpc |-> StringMember("3.0")]
    /\ wOut = "Version string MUST be exactly 2.0"

\* C30: the five standard numbers decode to their variants, every other
\* integer of the range reserved for server errors decodes to ServerError of
\* that integer, and every integer outside the range fails to decode.
C30_ErrorCodeDecoding ==
    wOp = "error_code"
        => CASE wIn = ParseErrorCode     -> wOut = CodeOk("ParseError", wIn)
             [] wIn = InvalidRequestCode -> wOut = CodeOk("InvalidRequest", wIn)
             [] wIn = MethodNotFoundCode -> wOut = CodeOk("MethodNotFound", wIn)
             [] wIn = InvalidParamsCode  -> wOut = CodeOk("InvalidParams", wIn)
             [] wIn = InternalErrorCode  -> wOut = CodeOk("InternalError", wIn)
             [] OTHER ->
                   IF wIn >= ServerErrorLast /\ wIn <= ServerErrorFirst
                   THEN wOut = CodeOk("ServerError", wIn)
                   ELSE ~wOut.ok

\* The state C30's counterexample ends in: a number of the reserved range
\* failed to decode.
C30_Witness ==
    /\ wOp = "error_code"
    /\ wIn = ServerErrorFirst - 50
    /\ wOut = CodeErr(wIn)

\* C32: complete invokes a consumer's waker only after it has released the
\* mutex of the registry.
C32_WakeAfterUnlock ==
    lockAtWake # "held"

\* The state C32's counterexample ends in: the Joinable polled once and
\* registered its waker, complete invoked the waker with the mutex held.
C32_Witness ==
    /\ handle[1] = "live"
    /\ polled[1]
    /\ woken[1]
    /\ fired[1] # None
    /\ lockAtWake = "held"

\* C37: a completion that arrives for an id no Joinable was handed out for is
\* discarded: what a Joinable's poll returns was completed after join returned
\* the Joinable.
C37_EarlyCompletionDiscarded ==
    \A id \in PoolIds :
        /\ handle[id] = "none" => fired[id] = None
        /\ got[id] # None => firstVal[id] # None

\* The state C37's counterexample ends in: the Joinable's first poll returned
\* the output of a complete that came before join, no complete came after.
C37_Witness ==
    /\ handle[1] = "done"
    /\ got[1] = "a"
    /\ firstVal[1] = None
    /\ issued = <<1>>

\* C38: a live Joinable whose output was completed, before its first poll or
\* after a poll that returned Pending, obtains the output (or is dropped by
\* its owner): the executor owes it a poll, and that poll returns it.
C38_NoLostWakeup ==
    \A id \in PoolIds :
        (handle[id] = "live" /\ fired[id] # None) ~> (handle[id] # "live")

C38_Witness ==
    /\ handle[1] = "done"
    /\ got[1] = "b"
    /\ firstVal[1] = "b"
    /\ polled[1]
    /\ lockAtWake = "held"
    /\ handle[2] = "done"
    /\ got[2] = "a"

\* C39: no id is in fired and in wakers at once, in the callback pool and in
\* the timer executor.
C39_FiredAndWakersDisjoint ==
    /\ \A id \in PoolIds : ~(fired[id] # None /\ id \in wakers)
    /\ tFired \cap tWakers = {}

C39_Witness ==
    /\ tFired = {1}
    /\ tWakers = {2}
    /\ timerIdSeq = 2
    /\ tick >= 1

\* The step in which timer v is added to the wheel.
AddsTimer(v) == ~added[v].on /\ added'[v].on

\* C35: add with tick count t and timeout d appends the entry to slot
\* (t + d) mod S with round (t + d) div S, and leaves the tick count and every
\* other slot as they were.
C35_AddPlacesEntry ==
    [][\A v \in TimerIds :
          AddsTimer(v)
          => LET d == added'[v].d
                 slot == (tick + d) % WheelSteps
             IN /\ added'[v].at = tick
                /\ hashed'[slot].slots =
                       Append(hashed[slot].slots,
                              [round |-> (tick + d) \div WheelSteps, t |-> v])
                /\ \A other \in WheelSlots \ {slot} : hashed'[other] = hashed[other]
                /\ tick' = tick]_vars

C35_Witness ==
    /\ tick = WheelSteps + 1
    /\ added[2] = [on |-> TRUE, at |-> WheelSteps + 1, d |-> WheelSteps]
    /\ added[1] = [on |-> TRUE, at |-> 0, d |-> WheelSteps + 1]
    /\ hashed[1].slots = <<[round |-> 0, t |-> 1], [round |-> 2, t |-> 2]>>

\* The places of the wheel that hold timer v.
PlacesOf(h, v) ==
    {p \in WheelSlots \X (1..MaxTimers) :
        p[2] <= Len(h[p[1]].slots) /\ h[p[1]].slots[p[2]].t = v}

\* Every added timer is in the wheel once until a tick returns it, and is in
\* the wheel no more after that.
HeldOrReturned(h, f) ==
    \A v \in TimerIds :
        Cardinality(PlacesOf(h, v)) = IF added[v].on /\ f[v] = 0 THEN 1 ELSE 0

\* The entries of a Vec of Slots.
EntriesOf(slots) == {slots[i] : i \in 1..Len(slots)}

\* C36: tick looks at slot t mod S only: it returns the entries of that slot
\* whose round is 0, keeps the others there with round less 1, leaves every
\* other slot as it was and adds 1 to the tick count; a timer a tick returned
\* is returned by no later tick, and none is lost.
C36_TickReturnsDue ==
    [][tick' # tick
       => LET step == tick % WheelSteps
              old == EntriesOf(hashed[step].slots)
          IN /\ tick' = tick + 1
             /\ {v \in TimerIds : firedAt'[v] # firedAt[v]}
                    = {e.t : e \in {o \in old : o.round = 0}}
             /\ \A v \in TimerIds : firedAt'[v] # firedAt[v]
                    => (firedAt[v] = 0 /\ firedAt'[v] = tick + 1)
             /\ EntriesOf(hashed'[step].slots)
                    = {[round |-> e.round - 1, t |-> e.t] :
                          e \in {o \in old : o.round # 0}}
             /\ Len(hashed'[step].slots)
                    = Cardinality({o \in old : o.round # 0})
             /\ \A other \in WheelSlots \ {step} : hashed'[other] = hashed[other]
             /\ HeldOrReturned(hashed, firedAt)
             /\ HeldOrReturned(hashed', firedAt')]_vars

C36_Witness ==
    /\ tick = 1
    /\ added[1] = [on |-> TRUE, at |-> 0, d |-> 0]
    /\ added[2] = [on |-> TRUE, at |-> 0, d |-> WheelSteps]
    /\ firedAt = [v \in TimerIds |-> IF v = 1 THEN 1 ELSE 0]
    /\ hashed[0].slots = <<[round |-> 0, t |-> 2]>>

\* C31: the decoding of the encoding of a Request or a Response is that
\* Request or Response.
C31_RoundTrip ==
    wOp = "round_trip" => wOut = DecodeOk(wIn.value)

\* The state C31's counterexample ends in: a Response whose result is
\* Some(null) came back with the result None.
C31_Witness ==
    /\ wOp = "round_trip"
    /\ wIn.object = "Response"
    /\ wIn.value = [id |-> 1, result |-> "null", error |-> NoneError]
    /\ wOut = DecodeOk([id |-> 1, result |-> None, error |-> NoneError])

\* C34: an invocation of a method's handler starts from the state the
\* registered function was registered with, whatever earlier invocations of
\* the method did to the state of their handlers, and a dispatch leaves the
\* state captured by the factory as it was.
C34_FreshCloneEveryDispatch ==
    [][(ReadsRequest /\ Invokes(sLast'.req))
       => (/\ hLast'.seen = NewHandlerState
           /\ hLast'.left = Invoke(NewHandlerState)
           /\ hFactory' = hFactory
           /\ hFactory[sLast'.req.method] = NewHandlerState
           /\ hRuns'[sLast'.req.method] = hRuns[sLast'.req.method] + 1)]_vars

C34_Witness ==
    /\ sCount = 2
    /\ hRuns["event"] = 2
    /\ hLast = [seen |-> NewHandlerState, left |-> Invoke(NewHandlerState)]
    /\ hFactory["event"] = NewHandlerState
    /\ sLast.req.method = "event"
    /\ sPc = "running"

\* C33: once recv_loop has ended the session closes: the calls in flight are
\* cancelled, the send queue is dropped and accepts no further frame, and
\* send_loop has ended and writes no further frame.
C33_SessionClosesWithRecvLoop ==
    [][recvPc # "running"
       => (/\ wire' = wire
           /\ Len(queue') <= Len(queue)
           /\ \A id \in inflightAtStop : pending[id].st # "Waiting")]_vars

\* The state C33's counterexample ends in: the input ended, the call in flight
\* was cancelled, and send_loop wrote the request of a call issued afterwards.
C33_Witness ==
    /\ recvPc = "stopped_eof"
    /\ inflightAtStop = {1}
    /\ callRes[1] = ErrRes("InternalError", "canceled", 0)
    /\ stopSeq = 2
    /\ callPc[2] = "awaiting"
    /\ wire = <<EncodeRequest(SomeId(1)), EncodeRequest(SomeId(2))>>

\* The ids of the requests a sequence of frames holds.
RequestIds(frames) ==
    {frames[k].id : k \in {n \in 1..Len(frames) : frames[n].hasId}}

\* C40: the slot of a call is registered, and its id allocated, before the
\* call's request is handed to the send queue and before it is written to the
\* output: a request with id i enters the queue, and reaches the output, only
\* after wait_one returned i and installed the slot of i.
C40_RegisteredBeforeTransmitted ==
    [][\A id \in CallIds :
          /\ (id \in RequestIds(queue') /\ id \notin RequestIds(queue))
                => (/\ pending[id].st # "None"
                    /\ callPc[id] = "registered"
                    /\ id < qSeq
                    /\ id \notin RequestIds(wire))
          /\ (id \in RequestIds(wire') /\ id \notin RequestIds(wire))
                => (/\ id < qSeq
                    /\ callPc[id] # "none"
                    /\ id \in RequestIds(queue))]_vars

C40_Witness ==
    /\ wire = <<EncodeRequest(SomeId(2)), EncodeRequest(SomeId(1))>>
    /\ timers = {2}
    /\ pending[1].st = "Waiting"
    /\ pending[2].st = "Waiting"
    /\ callPc[1] = "awaiting"
    /\ callPc[2] = "awaiting"

============================================================================
